---- MODULE Spec2Model ----
(***************************************************************************)
(* True Freelance: the project store of src/app.js (TrueFreelanceApp).     *)
(*                                                                         *)
(* The in-memory collection `projects` is filled from and written through  *)
(* to a remote table reached by asynchronous requests.  Every request is   *)
(* modelled by three steps: the call (the code up to its `await`), the     *)
(* table processing the request, and the continuation of the async         *)
(* function after the `await`.  Calls are not serialised by the code, so   *)
(* several requests may be in flight and may complete in any order.        *)
(*                                                                         *)
(* Strings that the code inspects character by character (trim,            *)
(* parseFloat) are sequences of one-character strings.  Numbers are exact  *)
(* fractions <<numerator, denominator>>; NaN is the empty tuple.           *)
(***************************************************************************)
EXTENDS Integers, Sequences, FiniteSets, TLC

\* ------------------------------------------------------------------ bounds

\* Store calls (add, update, delete) made in a run, besides the load of init.
MaxOps == 2

\* Requests that may be awaiting the table or their continuation at once.
MaxInFlight == 2

\* How many years the month cursor may move away from the year it starts in.
MaxYearsAway == 1

\* ----------------------------------------------------------------- numbers

NaN == <<>>

Num(n) == <<n, 1>>

Zero == Num(0)

IsNaN(x) == x = NaN

Abs(n) == IF n < 0 THEN 0 - n ELSE n

RECURSIVE GCD(_, _)
GCD(a, b) == IF b = 0 THEN a ELSE GCD(b, a % b)

\* The fraction n/d in lowest terms with a positive denominator; x/0 is an
\* infinity (denominator 0) and 0/0 is NaN, as for JavaScript numbers.
Fraction(n, d) ==
    IF d = 0
    THEN IF n = 0 THEN NaN ELSE <<(IF n < 0 THEN 0 - 1 ELSE 1), 0>>
    ELSE LET s == IF d < 0 THEN 0 - 1 ELSE 1
             g == GCD(Abs(n), Abs(d))
         IN  <<(s * n) \div g, (s * d) \div g>>

\* JavaScript a / b.
Divide(a, b) ==
    IF IsNaN(a) \/ IsNaN(b) THEN NaN ELSE Fraction(a[1] * b[2], a[2] * b[1])

\* JavaScript a + b on numbers.
Plus(a, b) ==
    IF IsNaN(a) \/ IsNaN(b) THEN NaN
    ELSE Fraction(a[1] * b[2] + b[1] * a[2], a[2] * b[2])

\* JavaScript a < b: false whenever an operand is NaN.
Less(a, b) == ~IsNaN(a) /\ ~IsNaN(b) /\ a[1] * b[2] < b[1] * a[2]

\* JavaScript a <= b.
LessEq(a, b) == ~IsNaN(a) /\ ~IsNaN(b) /\ a[1] * b[2] <= b[1] * a[2]

\* JavaScript a === b on numbers: NaN equals nothing, itself included.
NumEq(a, b) == ~IsNaN(a) /\ ~IsNaN(b) /\ a = b

\* ----------------------------------------------------------------- strings

Digits == <<"0", "1", "2", "3", "4", "5", "6", "7", "8", "9">>

IsDigit(c) == \E i \in 1..Len(Digits) : Digits[i] = c

DigitVal(c) == (CHOOSE i \in 1..Len(Digits) : Digits[i] = c) - 1

IsSpace(c) == c = " "

RECURSIVE TrimStart(_)
TrimStart(s) ==
    IF s # <<>> /\ IsSpace(Head(s)) THEN TrimStart(Tail(s)) ELSE s

RECURSIVE TrimEnd(_)
TrimEnd(s) ==
    IF s # <<>> /\ IsSpace(s[Len(s)])
    THEN TrimEnd(SubSeq(s, 1, Len(s) - 1))
    ELSE s

\* String.prototype.trim
Trim(s) == TrimEnd(TrimStart(s))

RECURSIVE DigitPrefix(_)
DigitPrefix(s) ==
    IF s # <<>> /\ IsDigit(Head(s))
    THEN <<Head(s)>> \o DigitPrefix(Tail(s))
    ELSE <<>>

RECURSIVE DigitsValue(_)
DigitsValue(ds) ==
    IF ds = <<>> THEN 0
    ELSE DigitsValue(SubSeq(ds, 1, Len(ds) - 1)) * 10 + DigitVal(ds[Len(ds)])

\* parseFloat of a string: leading white space is skipped, an optional sign
\* and the longest run of digits are read, what follows is ignored, and a
\* string with no leading number gives NaN.  (Decimal points and exponents
\* are not among the characters of the modelled inputs.)
ParseFloat(s) ==
    LET t    == TrimStart(s)
        neg  == t # <<>> /\ Head(t) = "-"
        body == IF neg THEN Tail(t) ELSE t
        ds   == DigitPrefix(body)
    IN  IF ds = <<>> THEN NaN
        ELSE Num(IF neg THEN 0 - DigitsValue(ds) ELSE DigitsValue(ds))

RECURSIVE NatToString(_)
NatToString(n) ==
    IF n < 10 THEN <<Digits[n + 1]>>
    ELSE NatToString(n \div 10) \o <<Digits[(n % 10) + 1]>>

\* String(v) for a number: NaN prints as "NaN", an integer as its digits.
\* Only integers and NaN are ever converted by the modelled code paths that
\* read the text back (fractions are passed through by ParseFloatColumn).
NumberToString(v) ==
    IF IsNaN(v) THEN <<"N", "a", "N">>
    ELSE IF v[1] < 0 THEN <<"-">> \o NatToString(0 - v[1])
    ELSE NatToString(v[1])

\* parseFloat of a column value of the response.  parseFloat converts its
\* argument to a string and parses that: an integer goes through its digits,
\* null (no number, written NaN here) through a text with no leading number.
\* A fraction's shortest decimal expansion parses back to the same number.
ParseFloatColumn(v) ==
    IF IsNaN(v) \/ v[2] = 1 THEN ParseFloat(NumberToString(v)) ELSE v

\* !value for a string: true exactly for the empty string.
Falsy(s) == s = <<>>

\* ------------------------------------------------------------------- data

\* null / no id (editingProjectId = null).
NoId == 0

\* A missing completion date ('' in the form, null in a row).
NoDate == <<>>

\* The four form fields as the user left them: texts, and a date or none.
FormData(n, h, m, d) ==
    [name |-> n, hoursWorked |-> h, moneyReceived |-> m, completionDate |-> d]

EmptyForm == FormData(<<>>, <<>>, <<>>, NoDate)

\* The day openModal('add') puts in the date field.
Today == <<2024, 3, 15>>

ValidInput == FormData(<<"a">>, <<"2">>, <<"4">>, <<2024, 2, 5>>)

\* Valid, with no hours and a name to trim.
ZeroHoursInput == FormData(<<" ", "b">>, <<"0">>, <<"5">>, <<2024, 3, 1>>)

\* Three fields break their rule: a blank name, negative money, no date.
InvalidInput == FormData(<<" ">>, <<"2">>, <<"-", "1">>, NoDate)

\* Hours that are no number.
NonNumericInput == FormData(<<"a">>, <<"x">>, <<"4">>, <<2024, 2, 5>>)

\* What callers of the public API pass to the store.
Inputs == {ZeroHoursInput, InvalidInput}

\* What users leave in the form when they submit it.
FormInputs == {ValidInput, ZeroHoursInput, InvalidInput, NonNumericInput}

\* window.currentUser before the auth guard has set it: undefined.
NoUser == <<>>

\* The user of the session getSession returns.
SessionUser == [id |-> "user"]

\* The fields a write request carries (insert: lines 120-126, update: 159-165);
\* user_id is sent with an insert only.
Request(n, h, m, d, u) ==
    [name |-> n, hours_worked |-> h, money_received |-> m,
     completion_date |-> d, updated_at |-> u, user_id |-> <<>>]

NoRequest == Request(<<>>, NaN, NaN, NoDate, 0)

\* A row of the remote table.
Row(i, r, rate, c, u) ==
    [id |-> i, name |-> r.name, hours_worked |-> r.hours_worked,
     money_received |-> r.money_received, completion_date |-> r.completion_date,
     hourly_rate |-> rate, created_at |-> c, updated_at |-> u]

\* A response row mapped to an in-memory record (lines 78-87, 132-141, 174-183).
MapRow(p) ==
    [id |-> p.id, name |-> p.name,
     hoursWorked |-> ParseFloatColumn(p.hours_worked),
     moneyReceived |-> ParseFloatColumn(p.money_received),
     completionDate |-> p.completion_date,
     hourlyRate |-> ParseFloatColumn(p.hourly_rate),
     createdAt |-> p.created_at, updatedAt |-> p.updated_at]

RECURSIVE MapRows(_)
MapRows(rows) ==
    IF rows = <<>> THEN <<>> ELSE <<MapRow(Head(rows))>> \o MapRows(Tail(rows))

\* calculateHourlyRate(hours, money): defined by the app, called nowhere.
calculateHourlyRate(hours, money) ==
    IF LessEq(hours, Zero) THEN Zero ELSE Divide(money, hours)

Ids(recs) == {recs[i].id : i \in 1..Len(recs)}

\* projects.findIndex(p => p.id === id): 0 stands for -1.
FindIndex(recs, id) ==
    IF \E i \in 1..Len(recs) : recs[i].id = id
    THEN CHOOSE i \in 1..Len(recs) :
            recs[i].id = id /\ \A j \in 1..(i - 1) : recs[j].id # id
    ELSE 0

RECURSIVE RemoveId(_, _)
\* projects.filter(p => p.id !== id)
RemoveId(recs, id) ==
    IF recs = <<>> THEN <<>>
    ELSE IF Head(recs).id = id THEN RemoveId(Tail(recs), id)
    ELSE <<Head(recs)>> \o RemoveId(Tail(recs), id)

\* ------------------------------------------------------------------ dates

\* A completion date is the text YYYY-MM-DD of a date input or a date column,
\* written <<year, month, day>> with months 1..12.  A Date of the page is
\* written by its local fields: year, month (getMonth(): 0..11) and date.

IsLeapYear(y) == (y % 4 = 0 /\ y % 100 # 0) \/ y % 400 = 0

\* Days of the month with index m (0..11) of year y.
DaysInMonth(y, m) ==
    IF m = 1 THEN (IF IsLeapYear(y) THEN 29 ELSE 28)
    ELSE IF m \in {3, 5, 8, 10} THEN 30
    ELSE 31

\* The Date constructor does not bring an overflowing month index into
\* 0..11.
NewDateNoRoll(y, m, d) == [year |-> y, month |-> m, date |-> d]

\* new Date(year, monthIndex, day) in local time, for a day that exists in
\* every month: a month index outside 0..11 moves the year.
NewDate(y, m, d) ==
    [year |-> y + ((m - (m % 12)) \div 12), month |-> m % 12, date |-> d]

\* Where the browser's time zone lies: behind UTC, at UTC, ahead of UTC.
TimeZones == {"west", "utc", "east"}

\* new Date('YYYY-MM-DD'): a date-only text is midnight UTC of that day, and
\* getFullYear() / getMonth() read the instant in local time.  Behind UTC it
\* is still the evening of the day before; at or ahead of UTC it is that day.
ParseDate(dateString, tz) ==
    LET y == dateString[1]
        m == dateString[2] - 1
        d == dateString[3]
    IN  IF tz # "west" THEN NewDate(y, m, d)
        ELSE IF d > 1 THEN NewDate(y, m, d - 1)
        ELSE LET prev == NewDate(y, m - 1, 1)
             IN  NewDate(prev.year, prev.month, DaysInMonth(prev.year, prev.month))

RECURSIVE getProjectsForMonth(_, _, _, _)
\* getProjectsForMonth(year, month) over the collection recs (lines 244-250).
getProjectsForMonth(recs, year, month, tz) ==
    IF recs = <<>> THEN <<>>
    ELSE LET project == Head(recs)
             rest    == getProjectsForMonth(Tail(recs), year, month, tz)
         IN  IF project.completionDate = NoDate THEN rest
             ELSE LET projectDate == ParseDate(project.completionDate, tz)
                  IN  IF projectDate.year = year /\ projectDate.month = month
                      THEN <<project>> \o rest
                      ELSE rest

RECURSIVE ReducePlus(_, _, _)
\* list.reduce((sum, p) => sum + p[field], sum0)
ReducePlus(list, field, sum) ==
    IF list = <<>> THEN sum
    ELSE ReducePlus(Tail(list), field, Plus(sum, Head(list)[field]))

\* The average rate as the mean of the records' hourly rates.
calculateMonthlyStatsMeanOfRates(monthProjects) ==
    LET totalEarnings == ReducePlus(monthProjects, "moneyReceived", Zero)
        totalHours    == ReducePlus(monthProjects, "hoursWorked", Zero)
    IN  [totalEarnings |-> totalEarnings, totalHours |-> totalHours,
         avgRate |-> IF Less(Zero, totalHours)
                     THEN Divide(ReducePlus(monthProjects, "hourlyRate", Zero),
                                 Num(Len(monthProjects)))
                     ELSE Zero,
         projectCount |-> Len(monthProjects)]

\* calculateMonthlyStats(monthProjects) (lines 255-262).
calculateMonthlyStats(monthProjects) ==
    LET totalEarnings == ReducePlus(monthProjects, "moneyReceived", Zero)
        totalHours    == ReducePlus(monthProjects, "hoursWorked", Zero)
    IN  [totalEarnings |-> totalEarnings, totalHours |-> totalHours,
         avgRate |-> IF Less(Zero, totalHours)
                     THEN Divide(totalEarnings, totalHours) ELSE Zero,
         projectCount |-> Len(monthProjects)]

\* What renderMonthlyView() (lines 320-345) puts in the monthly panel for the
\* cursor `view`: the month shown, its records and their statistics.
RenderMonthlyView(recs, view, tz) ==
    LET monthProjects == getProjectsForMonth(recs, view.year, view.month, tz)
    IN  [year |-> view.year, month |-> view.month, items |-> monthProjects,
         stats |-> calculateMonthlyStats(monthProjects)]

\* The monthly panel before it was rendered for the first time.
NoMonthlyView ==
    [year |-> 0, month |-> 0, items |-> <<>>,
     stats |-> [totalEarnings |-> Zero, totalHours |-> Zero, avgRate |-> Zero,
                projectCount |-> 0]]

\* ------------------------------------------------------------------ state

VARIABLES
    projects,          \* the in-memory collection (line 12)
    editingProjectId,  \* the record the modal edits, or NoId (line 13)
    modalOpen,         \* the modal overlay is shown
    saveBtnDisabled,   \* the save button is disabled while a submit is saving
    formData,          \* the values of the four form fields
    formErrors,        \* the field errors validateForm shows
    cards,             \* ids of the cards renderProjects drew last
    appStage,          \* "created", "loading" (init awaits the load), "ready"
    table,             \* the rows of the remote table, oldest first
    nextId,            \* the id the table gives to the next inserted row
    clock,             \* the time, read for created_at and updated_at
    pending,           \* requests in flight
    issued,            \* number of store calls made so far
    ret,               \* what the store call that ended last gave its caller
    currentViewMonth,  \* the month cursor, a Date (line 14)
    timeZone,          \* where the browser's time zone lies
    monthly,           \* the monthly panel as renderMonthlyView drew it last
    currentUser,       \* window.currentUser (auth-guard.js, line 15)
    authGuard          \* where the auth guard is, and what getSession answered

vars == <<projects, editingProjectId, modalOpen, saveBtnDisabled, formData,
          formErrors, cards, appStage, table, nextId, clock, pending, issued,
          ret, currentViewMonth, timeZone, monthly, currentUser, authGuard>>

authVars == <<currentUser, authGuard>>

monthVars == <<currentViewMonth, timeZone, monthly>>

uiVars == <<editingProjectId, modalOpen, saveBtnDisabled, formData, formErrors>>

tableVars == <<table, nextId>>

\* A request in flight: its number in the order of the calls (seq), who made
\* it (via), what it asks (op, id, req), whether the collection held the id
\* when the call was made (known) and the record it held (was), what the
\* user answered if the call asked for confirmation (answer), where it is
\* ("sent": the table has not processed it; "replied": the response waits for
\* the continuation), and the response ({data, error}).
Call(seq, op, via, id, req) ==
    [seq |-> seq, op |-> op, via |-> via, id |-> id, req |-> req,
     known |-> \E i \in 1..Len(projects) : projects[i].id = id,
     was |-> IF FindIndex(projects, id) = 0 THEN <<>>
             ELSE <<projects[FindIndex(projects, id)]>>,
     answer |-> TRUE, stage |-> "sent", error |-> FALSE, data |-> <<>>]

\* The end of a store call as its caller sees it: the value returned (result,
\* with the record when there is one), what the call did (error: the adapter
\* call failed and the catch block logged and alerted; adapter: the adapter was
\* called; asked: the user was asked to confirm), whether the collection held
\* the id when the call was made (known), and the collection as the call's
\* last step found it (before).
Return(op, via, id, known, result, rec, error, adapter, asked) ==
    [op |-> op, via |-> via, id |-> id, known |-> known, result |-> result,
     rec |-> rec, error |-> error, adapter |-> adapter, asked |-> asked,
     before |-> projects]


\* ------------------------------------------------------- the remote table

\* The table's generated hourly_rate column.
ComputedHourlyRate(hours, money) ==
    IF Less(Zero, hours) THEN Divide(money, hours) ELSE Zero

\* A row written by an earlier session.
EarlierRow ==
    Row(1, Request(<<"e">>, Num(3), Num(6), <<2024, 1, 31>>, 0),
        ComputedHourlyRate(Num(3), Num(6)), 0, 0)

\* The numeric columns are required: a NaN of the client arrives as JSON null
\* and the write is refused.
Storable(req) == ~IsNaN(req.hours_worked) /\ ~IsNaN(req.money_received)

RECURSIVE InsertByCreatedAtDesc(_, _)
InsertByCreatedAtDesc(r, rows) ==
    IF rows = <<>> THEN <<r>>
    ELSE IF r.created_at >= Head(rows).created_at THEN <<r>> \o rows
    ELSE <<Head(rows)>> \o InsertByCreatedAtDesc(r, Tail(rows))

RECURSIVE OrderByCreatedAtDesc(_)
\* .order('created_at', { ascending: false })
OrderByCreatedAtDesc(rows) ==
    IF rows = <<>> THEN <<>>
    ELSE InsertByCreatedAtDesc(Head(rows), OrderByCreatedAtDesc(Tail(rows)))

RECURSIVE ReplaceRow(_, _)
ReplaceRow(rows, r) ==
    IF rows = <<>> THEN <<>>
    ELSE <<IF Head(rows).id = r.id THEN r ELSE Head(rows)>> \o ReplaceRow(Tail(rows), r)

Reply(p, error, data) == [p EXCEPT !.stage = "replied", !.error = error, !.data = data]

\* The request fails: network failure, a refused write, a server error.
TableFails(p) ==
    /\ pending' = (pending \ {p}) \cup {Reply(p, TRUE, <<>>)}
    /\ UNCHANGED <<table, nextId, clock>>

\* select('*').order('created_at', desc)
TableSelect(p) ==
    /\ p.op = "load"
    /\ pending' = (pending \ {p}) \cup {Reply(p, FALSE, OrderByCreatedAtDesc(table))}
    /\ UNCHANGED <<table, nextId, clock>>

\* insert([...]).select().single()
TableInsert(p) ==
    /\ p.op = "add"
    /\ Storable(p.req)
    /\ LET r == Row(nextId, p.req,
                    ComputedHourlyRate(p.req.hours_worked, p.req.money_received),
                    clock, clock)
       IN  /\ table' = Append(table, r)
           /\ pending' = (pending \ {p}) \cup {Reply(p, FALSE, <<r>>)}
    /\ nextId' = nextId + 1
    /\ clock' = clock + 1

\* update({...}).eq('id', id).select().single(): single() is an error when no
\* row has the id.
TableUpdate(p) ==
    /\ p.op = "update"
    /\ Storable(p.req)
    /\ p.id \in Ids(table)
    /\ LET old == table[FindIndex(table, p.id)]
           r   == Row(old.id, p.req,
                      ComputedHourlyRate(p.req.hours_worked, p.req.money_received),
                      old.created_at, p.req.updated_at)
       IN  /\ table' = ReplaceRow(table, r)
           /\ pending' = (pending \ {p}) \cup {Reply(p, FALSE, <<r>>)}
    /\ UNCHANGED <<nextId, clock>>

\* delete().eq('id', id): no error when no row has the id.
TableDelete(p) ==
    /\ p.op = "delete"
    /\ table' = RemoveId(table, p.id)
    /\ pending' = (pending \ {p}) \cup {Reply(p, FALSE, <<>>)}
    /\ UNCHANGED <<nextId, clock>>

\* The table processes one request in flight.
TableStep ==
    /\ \E p \in pending :
        /\ p.stage = "sent"
        /\ \/ TableFails(p)
           \/ TableSelect(p)
           \/ TableInsert(p)
           \/ TableUpdate(p)
           \/ TableDelete(p)
    /\ UNCHANGED <<projects, uiVars, cards, appStage, issued, ret, monthVars, authVars>>

\* -------------------------------------------------------------- auth guard

\* The auth guard (auth-guard.js, lines 6-16): stage "created" before it runs,
\* "awaiting" while getSession is awaited, "done" after; session and error are
\* what getSession answered, redirected whether the page was sent to login.
Guard(stage, session, error, redirected) ==
    [stage |-> stage, session |-> session, error |-> error,
     redirected |-> redirected]

GuardCreated == Guard("created", FALSE, FALSE, FALSE)

\* The guard has found a session: the state of a page in use.
GuardPassed == Guard("done", TRUE, FALSE, FALSE)

\* The guard letting the page go on whenever there is a session.
GuardRedirectsIgnoringError(session, error) == ~session

\* error || !session (line 9)
GuardRedirects(session, error) == error \/ ~session

\* The guard calls getSession (line 7).
AuthGuardCall ==
    /\ authGuard.stage = "created"
    /\ authGuard' = [authGuard EXCEPT !.stage = "awaiting"]
    /\ UNCHANGED <<projects, uiVars, cards, appStage, tableVars, clock, pending,
                   issued, ret, monthVars, currentUser>>

\* getSession answers and the guard goes on (lines 9-15).
AuthGuardContinues ==
    /\ authGuard.stage = "awaiting"
    /\ \E session \in BOOLEAN, error \in BOOLEAN :
        /\ authGuard' = Guard("done", session, error, GuardRedirects(session, error))
        /\ currentUser' = IF GuardRedirects(session, error)
                          THEN currentUser ELSE SessionUser
    /\ UNCHANGED <<projects, uiVars, cards, appStage, tableVars, clock, pending,
                   issued, ret, monthVars>>

\* ------------------------------------------------------------------- init

Init ==
    /\ projects = <<>>
    /\ editingProjectId = NoId
    /\ modalOpen = FALSE
    /\ saveBtnDisabled = FALSE
    /\ formData = EmptyForm
    /\ formErrors = {}
    /\ cards = {}
    /\ appStage = "created"
    /\ table \in {<<>>, <<EarlierRow>>}
    /\ nextId = Len(table) + 1
    /\ clock = 1
    /\ pending = {}
    /\ issued = 0
    /\ ret = [op |-> "none", via |-> "none", id |-> NoId, known |-> FALSE,
              result |-> "undefined", rec |-> <<>>, error |-> FALSE,
              adapter |-> FALSE, asked |-> FALSE, before |-> <<>>]
    /\ currentViewMonth = NewDate(Today[1], Today[2] - 1, Today[3])
    /\ timeZone = "utc"
    /\ monthly = NoMonthlyView
    /\ currentUser = SessionUser
    /\ authGuard = GuardPassed

\* ------------------------------------------------------------- validation

\* validateForm(data): every field is looked at, the failing ones are marked,
\* and the form is valid when none was.  The result is the set of marked fields.
ValidateForm(data) ==
    LET nameError  == IF Falsy(data.name) \/ Len(Trim(data.name)) = 0
                      THEN {"EmptyName"} ELSE {}
        hoursError == IF Falsy(data.hoursWorked)
                         \/ Less(ParseFloat(data.hoursWorked), Zero)
                      THEN {"InvalidHours"} ELSE {}
        moneyError == IF Falsy(data.moneyReceived)
                         \/ Less(ParseFloat(data.moneyReceived), Zero)
                      THEN {"InvalidMoney"} ELSE {}
        dateError  == IF data.completionDate = NoDate
                      THEN {"MissingDate"} ELSE {}
    IN  nameError \cup hoursError \cup moneyError \cup dateError

\* ------------------------------------------------------------ store calls

\* An id no row and no record has.
AbsentId == Len(<<EarlierRow>>) + MaxOps + 1

\* The ids a caller may name: those it can have seen, and one that is unknown.
TargetIds == Ids(projects) \cup Ids(table) \cup {AbsentId}

\* The store calls made so far, the load of init not counted.
Calls == issued - (IF appStage = "created" THEN 0 ELSE 1)

CanCall == Calls < MaxOps /\ Cardinality(pending) < MaxInFlight

\* getProjectById(id) finds a record.
HasProject(id) == \E i \in 1..Len(projects) : projects[i].id = id

\* renderProjects(): one card per record.
RenderedCards(recs) == Ids(recs)

\* loadProjects() up to its await (lines 69-74), called by init (line 689).
LoadProjectsCall(via) ==
    /\ pending' = pending \cup {Call(issued + 1, "load", via, NoId, NoRequest)}
    /\ issued' = issued + 1
    /\ UNCHANGED <<projects, tableVars, clock, ret>>

\* addProject sending the insert whether window.currentUser is set or not.
AddProjectCallWithoutUser(data, via) ==
    /\ pending' = pending \cup
         {Call(issued + 1, "add", via, NoId,
               Request(Trim(data.name), ParseFloat(data.hoursWorked),
                       ParseFloat(data.moneyReceived), data.completionDate, 0))}
    /\ issued' = issued + 1
    /\ UNCHANGED <<projects, tableVars, clock, ret>>

\* addProject(projectData) up to its await (lines 116-128).  The row to insert
\* is built before insert() is called: with window.currentUser undefined,
\* reading its id (line 121) throws inside the try block, nothing is sent, and
\* the catch block logs, alerts and returns null (lines 145-149).
AddProjectCall(data, via) ==
    /\ issued' = issued + 1
    /\ IF currentUser = NoUser
       THEN /\ ret' = Return("add", via, NoId, FALSE, "null", <<>>, TRUE, FALSE, FALSE)
            /\ UNCHANGED pending
       ELSE /\ pending' = pending \cup
                 {Call(issued + 1, "add", via, NoId,
                       [Request(Trim(data.name), ParseFloat(data.hoursWorked),
                                ParseFloat(data.moneyReceived),
                                data.completionDate, 0)
                          EXCEPT !.user_id = currentUser.id])}
            /\ UNCHANGED ret
    /\ UNCHANGED <<projects, tableVars, clock>>

\* updateProject sending the name as it was typed.
UpdateProjectCallUntrimmed(id, data, via) ==
    /\ pending' = pending \cup
         {Call(issued + 1, "update", via, id,
               Request(data.name, ParseFloat(data.hoursWorked),
                       ParseFloat(data.moneyReceived), data.completionDate, clock))}
    /\ issued' = issued + 1
    /\ clock' = clock + 1
    /\ UNCHANGED <<projects, tableVars, ret>>

\* updateProject sending no updated_at of its own.
UpdateProjectCallNoTimestamp(id, data, via) ==
    /\ pending' = pending \cup
         {Call(issued + 1, "update", via, id,
               Request(Trim(data.name), ParseFloat(data.hoursWorked),
                       ParseFloat(data.moneyReceived), data.completionDate, 0))}
    /\ issued' = issued + 1
    /\ clock' = clock + 1
    /\ UNCHANGED <<projects, tableVars, ret>>

\* updateProject(id, projectData) up to its await (lines 155-168).
UpdateProjectCall(id, data, via) ==
    /\ pending' = pending \cup
         {Call(issued + 1, "update", via, id,
               Request(Trim(data.name), ParseFloat(data.hoursWorked),
                       ParseFloat(data.moneyReceived), data.completionDate, clock))}
    /\ issued' = issued + 1
    /\ clock' = clock + 1
    /\ UNCHANGED <<projects, tableVars, ret>>

\* deleteProject without the lookup of lines 198-199.
DeleteDecisionUnchecked(id, confirmed) ==
    IF ~confirmed THEN "declined" ELSE "send"

\* deleteProject going on whatever the user answers.
DeleteDecisionIgnoringAnswer(id, confirmed) ==
    IF ~HasProject(id) THEN "notfound" ELSE "send"

\* deleteProject(id) before its try block (lines 198-202): an unknown id ends
\* the call before the user is asked, a declined confirmation after.
DeleteDecision(id, confirmed) ==
    IF ~HasProject(id) THEN "notfound"
    ELSE IF ~confirmed THEN "declined"
    ELSE "send"

\* deleteProject(id) up to its await (lines 197-208).
DeleteProjectCall(id, confirmed, via) ==
    /\ Calls < MaxOps
    /\ DeleteDecision(id, confirmed) = "send" => Cardinality(pending) < MaxInFlight
    /\ issued' = issued + 1
    /\ IF DeleteDecision(id, confirmed) = "send"
       THEN /\ pending' = pending \cup
                 {[Call(issued + 1, "delete", via, id, NoRequest)
                     EXCEPT !.answer = confirmed]}
            /\ UNCHANGED ret
       ELSE /\ ret' = Return("delete", via, id, HasProject(id), "false", <<>>, FALSE,
                             FALSE, DeleteDecision(id, confirmed) = "declined")
            /\ UNCHANGED pending
    /\ UNCHANGED <<projects, tableVars, clock>>

\* ---------------------------------------------------------- continuations

\* closeModal() (lines 510-517).
CloseModalEffect ==
    /\ modalOpen' = FALSE
    /\ formData' = EmptyForm
    /\ formErrors' = {}
    /\ editingProjectId' = NoId

\* handleFormSubmit closing the modal whatever the store call returned.
CallerContinuesClosingAlways(via, success, recs) ==
    /\ IF via = "form"
       THEN /\ saveBtnDisabled' = FALSE
            /\ CloseModalEffect
       ELSE UNCHANGED uiVars
    /\ cards' = IF via = "init" \/ (via \in {"form", "card"} /\ success)
                THEN RenderedCards(recs) ELSE cards
    /\ appStage' = IF via = "init" THEN "ready" ELSE appStage
    /\ monthly' \in IF via = "form" /\ success
                    THEN {monthly, RenderMonthlyView(recs, currentViewMonth, timeZone)}
                    ELSE {monthly}
    /\ UNCHANGED <<currentViewMonth, timeZone, authVars>>

\* What follows the store call in its caller: handleFormSubmit (lines 600-610),
\* handleCardAction (lines 626-628), init (lines 690-691), or nothing.  After a
\* saved form the monthly panel is drawn again unless the page's markup gives
\* the monthly tab the class `hidden`, which no code of the page adds or
\* removes.
CallerContinues(via, success, recs) ==
    /\ IF via = "form"
       THEN /\ saveBtnDisabled' = FALSE
            /\ IF success
               THEN CloseModalEffect
               ELSE UNCHANGED <<modalOpen, formData, formErrors, editingProjectId>>
       ELSE UNCHANGED uiVars
    /\ cards' = IF via = "init" \/ (via \in {"form", "card"} /\ success)
                THEN RenderedCards(recs) ELSE cards
    /\ appStage' = IF via = "init" THEN "ready" ELSE appStage
    /\ monthly' \in IF via = "form" /\ success
                    THEN {monthly, RenderMonthlyView(recs, currentViewMonth, timeZone)}
                    ELSE {monthly}
    /\ UNCHANGED <<currentViewMonth, timeZone, authVars>>

\* The collection after loadProjects() (lines 76-91).
ProjectsAfterLoad(recs, p) == IF p.error THEN <<>> ELSE MapRows(p.data)

\* The collection after addProject() (lines 130-149).
ProjectsAfterAdd(recs, p) ==
    IF p.error THEN recs ELSE <<MapRow(p.data[1])>> \o recs

\* updateProject keeping the hourly rate the record had.
ProjectsAfterUpdateStaleRate(recs, p) ==
    LET projectIndex == FindIndex(recs, p.id)
    IN  IF p.error \/ projectIndex = 0 THEN recs
        ELSE [recs EXCEPT ![projectIndex] =
                 [MapRow(p.data[1]) EXCEPT !.hourlyRate = recs[projectIndex].hourlyRate]]

\* updateProject moving the updated record to the front.
ProjectsAfterUpdateToFront(recs, p) ==
    IF p.error \/ FindIndex(recs, p.id) = 0 THEN recs
    ELSE <<MapRow(p.data[1])>> \o RemoveId(recs, p.id)

\* The collection after updateProject() (lines 170-191).
ProjectsAfterUpdate(recs, p) ==
    LET projectIndex == FindIndex(recs, p.id)
    IN  IF p.error \/ projectIndex = 0 THEN recs
        ELSE [recs EXCEPT ![projectIndex] = MapRow(p.data[1])]

\* deleteProject dropping the record before the adapter has confirmed.
ProjectsAfterDeleteOptimistic(recs, p) == RemoveId(recs, p.id)

\* The collection after deleteProject() (lines 210-218).
ProjectsAfterDelete(recs, p) ==
    IF p.error THEN recs ELSE RemoveId(recs, p.id)

\* loadProjects() after its await (lines 76-91): it returns nothing, whether
\* the load failed or not.
LoadProjectsContinues(p) ==
    /\ p.op = "load"
    /\ projects' = ProjectsAfterLoad(projects, p)
    /\ ret' = Return("load", p.via, NoId, FALSE, "undefined", <<>>, p.error, TRUE, FALSE)
    /\ CallerContinues(p.via, FALSE, projects')

\* addProject() after its await (lines 130-149): returns the new record, or
\* null from the catch block.
AddProjectContinues(p) ==
    /\ p.op = "add"
    /\ projects' = ProjectsAfterAdd(projects, p)
    /\ ret' = IF p.error
              THEN Return("add", p.via, NoId, FALSE, "null", <<>>, TRUE, TRUE, FALSE)
              ELSE Return("add", p.via, NoId, FALSE, "record", <<MapRow(p.data[1])>>,
                          FALSE, TRUE, FALSE)
    /\ CallerContinues(p.via, ~p.error, projects')

\* updateProject() after its await (lines 170-191): returns
\* projects[projectIndex], which is undefined when no record has the id, or
\* null from the catch block.
UpdateProjectContinues(p) ==
    /\ p.op = "update"
    /\ projects' = ProjectsAfterUpdate(projects, p)
    /\ LET projectIndex == FindIndex(projects, p.id)
       IN  /\ ret' = IF p.error
                     THEN Return("update", p.via, p.id, p.known, "null", <<>>,
                                 TRUE, TRUE, FALSE)
                     ELSE IF projectIndex = 0
                     THEN Return("update", p.via, p.id, p.known, "undefined", <<>>,
                                 FALSE, TRUE, FALSE)
                     ELSE Return("update", p.via, p.id, p.known, "record",
                                 <<projects'[projectIndex]>>, FALSE, TRUE, FALSE)
           /\ CallerContinues(p.via, ~p.error /\ projectIndex # 0, projects')

\* deleteProject() after its await (lines 210-218): true, or false from the
\* catch block.
DeleteProjectContinues(p) ==
    /\ p.op = "delete"
    /\ projects' = ProjectsAfterDelete(projects, p)
    /\ ret' = Return("delete", p.via, p.id, p.known,
                     IF p.error THEN "false" ELSE "true", <<>>, p.error, TRUE, TRUE)
    /\ CallerContinues(p.via, ~p.error, projects')

\* The response of one request arrives and its async function runs to its end.
Continuation ==
    /\ \E p \in pending :
        /\ p.stage = "replied"
        /\ pending' = pending \ {p}
        /\ \/ LoadProjectsContinues(p)
           \/ AddProjectContinues(p)
           \/ UpdateProjectContinues(p)
           \/ DeleteProjectContinues(p)
    /\ UNCHANGED <<tableVars, clock, issued>>

\* ---------------------------------------------------------------- callers

\* init() (lines 688-693), run once when the document is ready (line 709).
AppInit ==
    /\ appStage = "created"
    /\ Cardinality(pending) < MaxInFlight
    /\ LoadProjectsCall("init")
    /\ appStage' = "loading"
    /\ UNCHANGED <<uiVars, cards, monthVars, authVars>>

\* TrueFreelanceApp.addProject(data) called by other code (line 701).
ApiAddProject ==
    /\ CanCall
    /\ \E data \in Inputs : AddProjectCall(data, "api")
    /\ UNCHANGED <<uiVars, cards, appStage, monthVars, authVars>>

\* TrueFreelanceApp.updateProject(id, data) called by other code (line 702).
ApiUpdateProject ==
    /\ CanCall
    /\ \E id \in TargetIds, data \in Inputs : UpdateProjectCall(id, data, "api")
    /\ UNCHANGED <<uiVars, cards, appStage, monthVars, authVars>>

\* TrueFreelanceApp.deleteProject(id) called by other code (line 703).
ApiDeleteProject ==
    /\ \E id \in TargetIds, confirmed \in BOOLEAN : DeleteProjectCall(id, confirmed, "api")
    /\ UNCHANGED <<uiVars, cards, appStage, monthVars, authVars>>

\* openModal('add') from the two add buttons (lines 655-656, 480-505).
OpenModalAdd ==
    /\ appStage = "ready"
    /\ ~modalOpen
    /\ editingProjectId' = NoId
    /\ formData' = [EmptyForm EXCEPT !.completionDate = Today]
    /\ formErrors' = {}
    /\ modalOpen' = TRUE
    /\ UNCHANGED <<projects, saveBtnDisabled, cards, appStage, tableVars, clock,
                   pending, issued, ret, monthVars, authVars>>

\* A card's Edit button: openModal('edit', projectId) (lines 623-624, 480-505).
HandleCardEdit ==
    /\ appStage = "ready"
    /\ ~modalOpen
    /\ \E projectId \in cards :
        /\ editingProjectId' = projectId
        /\ formData' =
             IF HasProject(projectId)
             THEN LET project == projects[FindIndex(projects, projectId)]
                  IN  FormData(project.name,
                               NumberToString(project.hoursWorked),
                               NumberToString(project.moneyReceived),
                               project.completionDate)
             ELSE EmptyForm
    /\ formErrors' = {}
    /\ modalOpen' = TRUE
    /\ UNCHANGED <<projects, saveBtnDisabled, cards, appStage, tableVars, clock,
                   pending, issued, ret, monthVars, authVars>>

\* closeModal() from the close and cancel buttons, the overlay and the Escape
\* key (lines 658-660, 678, 510-517).
CloseModal ==
    /\ appStage = "ready"
    /\ modalOpen
    /\ CloseModalEffect
    /\ UNCHANGED <<projects, saveBtnDisabled, cards, appStage, tableVars, clock,
                   pending, issued, ret, monthVars, authVars>>

\* handleFormSubmit (lines 575-598) with `data` in the four fields: a form
\* that fails validation shows its errors and nothing else happens; a valid
\* one disables the save button and calls updateProject or addProject.  When
\* addProject ends without a request (no window.currentUser), the handler goes
\* on at once: the button is enabled again and the modal stays open.
SubmitForm(data) ==
    /\ formData' = data
    /\ formErrors' = ValidateForm(data)
    /\ IF ValidateForm(data) # {}
       THEN UNCHANGED <<saveBtnDisabled, projects, tableVars, clock, pending,
                        issued, ret>>
       ELSE /\ CanCall
            /\ saveBtnDisabled' = (editingProjectId # NoId \/ currentUser # NoUser)
            /\ IF editingProjectId # NoId
               THEN UpdateProjectCall(editingProjectId, data, "form")
               ELSE AddProjectCall(data, "form")
    /\ UNCHANGED <<editingProjectId, modalOpen, cards, appStage, monthVars, authVars>>

\* The user leaves some values in the fields and submits; a disabled save
\* button does not submit.
HandleFormSubmit ==
    /\ appStage = "ready"
    /\ modalOpen
    /\ ~saveBtnDisabled
    /\ \E data \in FormInputs : SubmitForm(data)

\* A card's Delete button (lines 625-626); the user answers the confirm dialog.
HandleCardDelete ==
    /\ appStage = "ready"
    /\ ~modalOpen
    /\ \E projectId \in cards, confirmed \in BOOLEAN :
          DeleteProjectCall(projectId, confirmed, "card")
    /\ UNCHANGED <<uiVars, cards, appStage, monthVars, authVars>>

\* The store and its callers through the public API (lines 699-705).  The
\* handlers of the page call the same three functions with inputs and ids that
\* are among those drawn here.
Next ==
    \/ AppInit
    \/ ApiAddProject
    \/ ApiUpdateProject
    \/ ApiDeleteProject
    \/ TableStep
    \/ Continuation

Spec == Init /\ [][Next]_vars

\* The store and its callers in the page: the form and the cards.
NextUI ==
    \/ AppInit
    \/ OpenModalAdd
    \/ HandleCardEdit
    \/ CloseModal
    \/ HandleFormSubmit
    \/ HandleCardDelete
    \/ TableStep
    \/ Continuation

SpecUI == Init /\ [][NextUI]_vars

\* Validation on its own: the add form is open on an empty collection, the
\* user has typed any of the texts below into the fields, and submits.
NameTexts == {<<>>, <<" ">>, <<"a">>, <<" ", "b">>}

NumberTexts == {<<>>, <<"x">>, <<"-", "1">>, <<"0">>, <<"2">>}

DateValues == {NoDate, <<2024, 2, 5>>}

TypedForms ==
    {FormData(n, h, m, d) : n \in NameTexts, h \in NumberTexts,
                            m \in NumberTexts, d \in DateValues}

InitValidate ==
    /\ projects = <<>>
    /\ editingProjectId = NoId
    /\ modalOpen = TRUE
    /\ saveBtnDisabled = FALSE
    /\ formData \in TypedForms
    /\ formErrors = {}
    /\ cards = {}
    /\ appStage = "ready"
    /\ table = <<>>
    /\ nextId = 1
    /\ clock = 1
    /\ pending = {}
    /\ issued = 1
    /\ ret = [op |-> "load", via |-> "init", id |-> NoId, known |-> FALSE,
              result |-> "undefined", rec |-> <<>>, error |-> FALSE,
              adapter |-> TRUE, asked |-> FALSE, before |-> <<>>]
    /\ currentViewMonth = NewDate(Today[1], Today[2] - 1, Today[3])
    /\ timeZone = "utc"
    /\ monthly = NoMonthlyView
    /\ currentUser = SessionUser
    /\ authGuard = GuardPassed

SubmitTypedForm ==
    /\ appStage = "ready"
    /\ modalOpen
    /\ ~saveBtnDisabled
    /\ SubmitForm(formData)

NextValidate ==
    \/ SubmitTypedForm
    \/ TableStep
    \/ Continuation

SpecValidate == InitValidate /\ [][NextValidate]_vars

\* The monthly view on its own: the collection holds some of the records
\* below, in this order, as a load left them; the user opens the monthly tab
\* and moves the cursor.
StoredRow(i, n, h, m, d) ==
    Row(i, Request(n, h, m, d, 0), ComputedHourlyRate(h, m), i, i)

MonthlyRows ==
    <<StoredRow(5, <<"n">>, Num(2), Num(3), NoDate),
      StoredRow(4, <<"m">>, Num(8), Num(400), <<2024, 3, 1>>),
      StoredRow(3, <<"f">>, Num(5), Num(100), <<2024, 2, 20>>),
      StoredRow(2, <<"g">>, Num(10), Num(500), <<2024, 2, 5>>),
      StoredRow(1, <<"h">>, Num(0), Num(7), <<2024, 2, 1>>)>>

RECURSIVE Pick(_, _)
\* The elements of a sequence whose place is in `places`, in their order.
Pick(seq, places) ==
    IF seq = <<>> THEN <<>>
    ELSE Pick(SubSeq(seq, 1, Len(seq) - 1), places)
         \o (IF Len(seq) \in places THEN <<seq[Len(seq)]>> ELSE <<>>)

\* The days on which the page may have been opened.
OpeningDays == {<<2024, 1, 31>>, <<2024, 3, 15>>, <<2024, 12, 31>>}

InitMonthly ==
    /\ \E places \in SUBSET (1..Len(MonthlyRows)) :
          projects = MapRows(Pick(MonthlyRows, places))
    /\ editingProjectId = NoId
    /\ modalOpen = FALSE
    /\ saveBtnDisabled = FALSE
    /\ formData = EmptyForm
    /\ formErrors = {}
    /\ cards = RenderedCards(projects)
    /\ appStage = "ready"
    /\ table = <<>>
    /\ nextId = Len(MonthlyRows) + 1
    /\ clock = Len(MonthlyRows) + 1
    /\ pending = {}
    /\ issued = 1
    /\ ret = [op |-> "load", via |-> "init", id |-> NoId, known |-> FALSE,
              result |-> "undefined", rec |-> <<>>, error |-> FALSE,
              adapter |-> TRUE, asked |-> FALSE, before |-> <<>>]
    /\ \E day \in OpeningDays : currentViewMonth = NewDate(day[1], day[2] - 1, day[3])
    /\ timeZone \in TimeZones
    /\ monthly = NoMonthlyView
    /\ currentUser = SessionUser
    /\ authGuard = GuardPassed

\* switchTab('monthly') (lines 298-315): the panel is drawn for the cursor.
SwitchTabMonthly ==
    /\ appStage = "ready"
    /\ monthly' = RenderMonthlyView(projects, currentViewMonth, timeZone)
    /\ UNCHANGED <<projects, uiVars, cards, appStage, tableVars, clock, pending,
                   issued, ret, currentViewMonth, timeZone, authVars>>

\* changeMonth(direction) (lines 286-293) from the two arrow buttons.
ChangeMonth(direction) ==
    /\ appStage = "ready"
    /\ Abs(NewDate(currentViewMonth.year, currentViewMonth.month + direction, 1).year
             - Today[1]) <= MaxYearsAway
    /\ currentViewMonth' = NewDate(currentViewMonth.year,
                                   currentViewMonth.month + direction, 1)
    /\ monthly' = RenderMonthlyView(projects, currentViewMonth', timeZone)
    /\ UNCHANGED <<projects, uiVars, cards, appStage, tableVars, clock, pending,
                   issued, ret, timeZone, authVars>>

PrevMonth == ChangeMonth(0 - 1)

NextMonthClick == ChangeMonth(1)

NextMonthly ==
    \/ SwitchTabMonthly
    \/ PrevMonth
    \/ NextMonthClick

SpecMonthly == InitMonthly /\ [][NextMonthly]_vars

\* The page from its start, the auth guard not yet run, with callers of
\* addProject.
InitAuth ==
    /\ projects = <<>>
    /\ editingProjectId = NoId
    /\ modalOpen = FALSE
    /\ saveBtnDisabled = FALSE
    /\ formData = EmptyForm
    /\ formErrors = {}
    /\ cards = {}
    /\ appStage = "created"
    /\ table \in {<<>>, <<EarlierRow>>}
    /\ nextId = Len(table) + 1
    /\ clock = 1
    /\ pending = {}
    /\ issued = 0
    /\ ret = [op |-> "none", via |-> "none", id |-> NoId, known |-> FALSE,
              result |-> "undefined", rec |-> <<>>, error |-> FALSE,
              adapter |-> FALSE, asked |-> FALSE, before |-> <<>>]
    /\ currentViewMonth = NewDate(Today[1], Today[2] - 1, Today[3])
    /\ timeZone = "utc"
    /\ monthly = NoMonthlyView
    /\ currentUser = NoUser
    /\ authGuard = GuardCreated

NextAuth ==
    \/ AuthGuardCall
    \/ AuthGuardContinues
    \/ AppInit
    \/ ApiAddProject
    \/ TableStep
    \/ Continuation

SpecAuth == InitAuth /\ [][NextAuth]_vars

\* ------------------------------------------------------------- properties

\* The rules of section 3 for a stored record.
ValidRecord(r) ==
    /\ Len(Trim(r.name)) > 0
    /\ ~Less(r.hoursWorked, Zero)
    /\ ~Less(r.moneyReceived, Zero)
    /\ r.completionDate # NoDate

\* The same rules for the fields a write request carries.
ValidRequest(req) ==
    /\ Len(Trim(req.name)) > 0
    /\ LessEq(Zero, req.hours_worked)
    /\ LessEq(Zero, req.money_received)
    /\ req.completion_date # NoDate

\* hoursWorked > 0 ? moneyReceived / hoursWorked : 0
RateOf(r) ==
    IF Less(Zero, r.hoursWorked) THEN Divide(r.moneyReceived, r.hoursWorked) ELSE Zero

\* Newest first by creation time.
NewestFirst(recs) ==
    \A i, j \in 1..Len(recs) : i < j => recs[i].createdAt >= recs[j].createdAt

\* C1: when the adapter call of an add, update or remove fails, the call
\* returns a failure value (null or false) and the collection is the sequence
\* the failing call found: nothing fabricated, altered or dropped.
C1_FailedWriteLeavesCollection ==
    (ret.op \in {"add", "update", "delete"} /\ ret.error) =>
        /\ ret.result \in {"null", "false"}
        /\ projects = ret.before

C1_Witness ==
    /\ ret.op = "delete"
    /\ ret.error
    /\ ret.known
    /\ Len(projects) > 0

\* C2: every record of the collection has
\* hourlyRate == (hoursWorked > 0 ? moneyReceived / hoursWorked : 0).
C2_HourlyRateCurrent ==
    \A i \in 1..Len(projects) : NumEq(projects[i].hourlyRate, RateOf(projects[i]))

\* An update has just given a record that had a rate zero hours and some money.
C2_Witness ==
    /\ ret.op = "update"
    /\ ret.result = "record"
    /\ \E i \in 1..Len(projects) :
        /\ projects[i].id = ret.id
        /\ projects[i].hoursWorked = Zero
        /\ Less(Zero, projects[i].moneyReceived)
        /\ ret.before[i].hourlyRate # Zero

\* C3: no record breaks a rule of section 3, and no add or update reaches the
\* adapter with input that breaks one.
C3_OnlyValidatedInputStored ==
    /\ \A i \in 1..Len(projects) : ValidRecord(projects[i])
    /\ \A p \in pending : p.op \in {"add", "update"} => ValidRequest(p.req)

\* C4: a successful add leaves [confirmed record] followed by the old
\* collection, and the collection is ordered newest first by creation.
C4_AddPrependsNewestFirst ==
    /\ (ret.op = "add" /\ ret.result = "record") => projects = ret.rec \o ret.before
    /\ NewestFirst(projects)

\* C5: a successful update of a record of the collection replaces it where it
\* is and returns it; the length, the place of every record and the records
\* with another id stay as they were.
C5_UpdateReplacesInPlace ==
    (ret.op = "update" /\ ~ret.error /\ ret.id \in Ids(ret.before)) =>
        LET i == FindIndex(ret.before, ret.id)
        IN  /\ ret.result = "record"
            /\ Len(projects) = Len(ret.before)
            /\ ret.rec = <<projects[i]>>
            /\ \A j \in 1..Len(projects) :
                /\ projects[j].id = ret.before[j].id
                /\ ret.before[j].id # ret.id => projects[j] = ret.before[j]

\* An update has changed a record that is not the first of the collection.
C5_Witness ==
    /\ ret.op = "update"
    /\ ret.result = "record"
    /\ FindIndex(ret.before, ret.id) > 1
    /\ projects # ret.before

\* C6: an update of an id the collection does not hold never reaches the
\* adapter: it ends with a NotFound result and the collection as it was.
C6_UpdateChecksIdFirst ==
    /\ \A p \in pending : p.op = "update" => p.known
    /\ (ret.op = "update" /\ ~ret.known) =>
        /\ ~ret.adapter
        /\ ret.result = "notfound"
        /\ projects = ret.before

\* C7: a remove of an id the collection does not hold returns false without
\* asking for confirmation and without calling the adapter, and the collection
\* is as it was.
C7_DeleteUnknownId ==
    /\ \A p \in pending : p.op = "delete" => p.known
    /\ (ret.op = "delete" /\ ~ret.known) =>
        /\ ret.result = "false"
        /\ ~ret.asked
        /\ ~ret.adapter
        /\ projects = ret.before

C7_Witness ==
    /\ ret.op = "delete"
    /\ ~ret.known
    /\ Len(projects) > 0

\* C8: a failed load leaves the collection empty and gives its caller a result
\* that a successful load does not give.
C8_FailedLoadReported ==
    (ret.op = "load" /\ ret.error) =>
        /\ projects = <<>>
        /\ ret.result # "undefined"

\* C9: the collection changes only when a confirmed request continues, and
\* a request that continues has no request called before it still in flight.
C9_EffectsInCallOrder ==
    [][ /\ projects' # projects =>
            \E d \in pending : d.stage = "replied" /\ ~d.error /\ d \notin pending'
        /\ \A d \in pending :
            (d.stage = "replied" /\ ~d.error /\ d \notin pending') =>
                \A p \in pending' : d.seq < p.seq ]_vars

\* The fields of the form that break their rule in the table of section 4.1.
BrokenRules(data) ==
    (IF Len(Trim(data.name)) = 0 THEN {"EmptyName"} ELSE {})
    \cup (IF data.hoursWorked = <<>> \/ ~LessEq(Zero, ParseFloat(data.hoursWorked))
          THEN {"InvalidHours"} ELSE {})
    \cup (IF data.moneyReceived = <<>> \/ ~LessEq(Zero, ParseFloat(data.moneyReceived))
          THEN {"InvalidMoney"} ELSE {})
    \cup (IF data.completionDate = NoDate THEN {"MissingDate"} ELSE {})

\* Validation has looked at the values in the fields: it shows errors, or the
\* submit went on to save.
Validated == modalOpen /\ (formErrors # {} \/ saveBtnDisabled)

\* C10: once validation has looked at the form, the errors shown include one
\* for every field that breaks its rule.
C10_ValidationCollectsAll == Validated => BrokenRules(formData) \subseteq formErrors

RECURSIVE SumOf(_, _)
\* The sum of a field over a list of records.
SumOf(list, field) ==
    IF list = <<>> THEN Zero
    ELSE Plus(Head(list)[field], SumOf(Tail(list), field))

\* The monthly panel has been drawn.
MonthlyDrawn == monthly # NoMonthlyView

\* C11: the statistics shown for the records selected for a month are the sum
\* of their moneyReceived, the sum of their hoursWorked, their number, and
\* totalEarnings / totalHours when totalHours > 0 and 0 otherwise; records of
\* (10h, 500) and (5h, 100) alone give the average rate 40.
C11_MonthlyStatsFromTotals ==
    MonthlyDrawn =>
        LET earnings == SumOf(monthly.items, "moneyReceived")
            hours    == SumOf(monthly.items, "hoursWorked")
        IN  /\ monthly.stats.totalEarnings = earnings
            /\ monthly.stats.totalHours = hours
            /\ monthly.stats.projectCount = Len(monthly.items)
            /\ monthly.stats.avgRate =
                 (IF Less(Zero, hours) THEN Divide(earnings, hours) ELSE Zero)
            /\ (/\ Len(monthly.items) = 2
                /\ {<<monthly.items[i].hoursWorked, monthly.items[i].moneyReceived>> :
                        i \in 1..2} = {<<Num(10), Num(500)>>, <<Num(5), Num(100)>>})
                => monthly.stats.avgRate = Num(40)

\* The panel shows the two records of (10h, 500) and (5h, 100).
C11_Witness ==
    /\ MonthlyDrawn
    /\ Len(monthly.items) = 2
    /\ {<<monthly.items[i].hoursWorked, monthly.items[i].moneyReceived>> :
            i \in 1..2} = {<<Num(10), Num(500)>>, <<Num(5), Num(100)>>}
    /\ monthly.stats.avgRate = Num(40)

RECURSIVE InCalendarMonth(_, _, _)
\* The records whose completionDate is a day of the month with index `month`
\* of `year`, in their order.
InCalendarMonth(recs, year, month) ==
    IF recs = <<>> THEN <<>>
    ELSE (IF /\ Head(recs).completionDate # NoDate
             /\ Head(recs).completionDate[1] = year
             /\ Head(recs).completionDate[2] = month + 1
          THEN <<Head(recs)>> ELSE <<>>)
         \o InCalendarMonth(Tail(recs), year, month)

\* C12: the records shown for a month are exactly the records of the
\* collection whose completionDate has that calendar year and month, in
\* collection order; 2024-03-01 is not among those of February 2024, the first
\* day of the month shown is, and a record without a date is in no month.
C12_MonthlyFilterExact ==
    MonthlyDrawn => monthly.items = InCalendarMonth(projects, monthly.year, monthly.month)

\* The months between two cursors, counted from year 0.
MonthNumber(view) == view.year * 12 + view.month

\* C13: a step that moves the month cursor moves it by exactly one calendar
\* month (December of Y forward to January of Y+1, January of Y back to
\* December of Y-1, otherwise the month next to it in the same year), leaves
\* the day of the month 1, and the opposite step from where it arrived leads
\* back to the (year, month) it left.
C13_CursorMovesOneMonth ==
    [][ currentViewMonth' # currentViewMonth =>
          \E direction \in {0 - 1, 1} :
            LET from == currentViewMonth
                to   == currentViewMonth'
                back == NewDate(to.year, to.month - direction, 1)
            IN  /\ to.month \in 0..11
                /\ to.date = 1
                /\ MonthNumber(to) = MonthNumber(from) + direction
                /\ (from.month = 11 /\ direction = 1)
                      => (to.year = from.year + 1 /\ to.month = 0)
                /\ (from.month = 0 /\ direction = 0 - 1)
                      => (to.year = from.year - 1 /\ to.month = 11)
                /\ ~(from.month = 11 /\ direction = 1)
                   /\ ~(from.month = 0 /\ direction = 0 - 1)
                      => (to.year = from.year /\ to.month = from.month + direction)
                /\ back.year = from.year /\ back.month = from.month ]_vars

\* The cursor has gone back from January 2024 to December 2023.
C13_Witness ==
    /\ currentViewMonth = NewDate(2023, 11, 1)
    /\ monthly.year = 2023
    /\ monthly.month = 11

\* No store call is in flight: init has finished and no request awaits the
\* table or its continuation.
Quiescent == appStage = "ready" /\ pending = {}

\* C14: whenever no store operation is in flight, the collection holds exactly
\* the records the adapter holds, with the same field values.
C14_NoDivergenceFromAdapter ==
    Quiescent =>
        /\ Len(projects) = Len(table)
        /\ {projects[i] : i \in 1..Len(projects)}
             = {MapRow(table[i]) : i \in 1..Len(table)}

\* C15: no two records of the collection have the same id.
C15_UniqueIds ==
    \A i, j \in 1..Len(projects) : projects[i].id = projects[j].id => i = j

\* A number field breaks its rule: absent, no number, or negative.
BrokenNumber(text) == text = <<>> \/ ~LessEq(Zero, ParseFloat(text))

\* C16: validation shows InvalidHours exactly when hoursWorked is absent, is
\* no number or is negative, and InvalidMoney exactly when moneyReceived is;
\* zero is accepted and a text that is no number is rejected.
C16_NumberRulesExact ==
    Validated =>
        /\ "InvalidHours" \in formErrors <=> BrokenNumber(formData.hoursWorked)
        /\ "InvalidMoney" \in formErrors <=> BrokenNumber(formData.moneyReceived)

\* The update p of a record the collection held when the call was made is
\* confirmed and its continuation runs on a collection that holds the record.
UpdateApplies(p) ==
    /\ p \in pending
    /\ p \notin pending'
    /\ p.op = "update"
    /\ p.stage = "replied"
    /\ ~p.error
    /\ p.known
    /\ FindIndex(projects, p.id) # 0

\* C17: a successful update leaves the record with the id and the createdAt
\* it had before the update and with an updatedAt later than the one it had,
\* whatever the input fields were.
C17_UpdateKeepsIdAndCreatedAt ==
    [][ \A p \in pending : UpdateApplies(p) =>
          LET i == FindIndex(projects, p.id)
          IN  /\ ret'.result = "record"
              /\ ret'.rec = <<projects'[i]>>
              /\ projects'[i].id = p.was[1].id
              /\ projects'[i].createdAt = p.was[1].createdAt
              /\ projects'[i].createdAt = projects[i].createdAt
              /\ projects'[i].updatedAt > p.was[1].updatedAt ]_vars

\* An update whose input fields are those the record had has returned: the
\* record differs from the one it replaced in updatedAt and in nothing else.
C17_Witness ==
    /\ ret.op = "update"
    /\ ret.result = "record"
    /\ ret.known
    /\ LET i == FindIndex(ret.before, ret.id)
       IN  /\ i # 0
           /\ projects[i] # ret.before[i]
           /\ projects[i] = [ret.before[i] EXCEPT !.updatedAt = projects[i].updatedAt]

\* The request carries the field values the record has.
SameFields(req, r) ==
    /\ Trim(req.name) = Trim(r.name)
    /\ NumEq(req.hours_worked, r.hoursWorked)
    /\ NumEq(req.money_received, r.moneyReceived)
    /\ req.completion_date = r.completionDate

\* Two records are equal but for updatedAt.
EqualButUpdatedAt(a, b) == a = [b EXCEPT !.updatedAt = a.updatedAt]

\* getProjectById(id) when a record has the id.
GetById(recs, id) == recs[FindIndex(recs, id)]

\* C18: the record an add returns is the one getById finds, and an update of
\* a record with the field values it has returns and leaves under its id a
\* record equal to it in id, name, hoursWorked, moneyReceived, completionDate,
\* hourlyRate and createdAt.
C18_AddUpdateRoundTrip ==
    [][ \A p \in pending : (p.stage = "replied" /\ ~p.error /\ p \notin pending') =>
          /\ p.op = "add" =>
                /\ ret'.result = "record"
                /\ GetById(projects', ret'.rec[1].id) = ret'.rec[1]
          /\ (/\ p.op = "update"
              /\ FindIndex(projects, p.id) # 0
              /\ SameFields(p.req, GetById(projects, p.id))) =>
                /\ ret'.result = "record"
                /\ EqualButUpdatedAt(ret'.rec[1], GetById(projects, p.id))
                /\ GetById(projects', p.id) = ret'.rec[1] ]_vars

\* A valid record added in this session has been updated with the field
\* values it had, and only its updatedAt has changed.
C18_Witness ==
    /\ ret.op = "update"
    /\ ret.result = "record"
    /\ ret.id \notin Ids(<<EarlierRow>>)
    /\ ValidRecord(ret.rec[1])
    /\ ret.rec[1].name # <<>>
    /\ GetById(projects, ret.id) = ret.rec[1]
    /\ EqualButUpdatedAt(ret.rec[1], GetById(ret.before, ret.id))
    /\ ret.rec[1].updatedAt # GetById(ret.before, ret.id).updatedAt

\* The delete that returned last was declined by the user.
DeleteDeclined == ret.op = "delete" /\ ret.known /\ ret.asked /\ ~ret.adapter

\* C19: a delete the user declines is a no-op: no delete request is ever in
\* flight on a declined answer, the call returns false, nothing is logged or
\* alerted, and the collection and the cards are as they were.
C19_DeclinedDeleteIsNoOp ==
    /\ \A p \in pending : p.op = "delete" => p.answer
    /\ DeleteDeclined =>
        /\ ret.result = "false"
        /\ ~ret.error
        /\ projects = ret.before
        /\ ret.id \in Ids(projects)

\* The user has declined the delete of a card's record.
C19_Witness ==
    /\ DeleteDeclined
    /\ ret.via = "card"
    /\ ret.id \in cards
    /\ pending = {}

\* The response of the confirmed update p is handled when the collection no
\* longer holds the record: its removal has completed.
LateUpdate(p) ==
    /\ p \in pending
    /\ p \notin pending'
    /\ p.op = "update"
    /\ p.stage = "replied"
    /\ ~p.error
    /\ p.known
    /\ FindIndex(projects, p.id) = 0

\* C20: a record the adapter has removed never enters the collection again
\* (every record that enters is one the adapter holds), and the response of
\* an update that arrives after the record's removal leaves the collection as
\* it is.
C20_RemovedNeverReappears ==
    [][ /\ \A id \in Ids(projects') \ Ids(projects) : id \in Ids(table)
        /\ \A p \in pending : LateUpdate(p) => projects' = projects ]_vars

\* The requests a step sends.
Sent == pending' \ {p \in pending' : \E q \in pending : q.seq = p.seq}

\* The step is a submission of the form that found it valid.
ValidSubmission == ~saveBtnDisabled /\ saveBtnDisabled'

\* The step is a submission of the form that found an error.
FailedValidation ==
    /\ formErrors' # {}
    /\ <<formData', formErrors'>> # <<formData, formErrors>>

\* The step is the end of the write p that a submission of the form made.
FormWriteEnds(p) ==
    /\ p \in pending
    /\ p.via = "form"
    /\ \A q \in pending' : q.seq # p.seq

\* C21: a submission of a valid form sends exactly one write, an update of
\* editingProjectId when it is set and an insert otherwise, and leaves the
\* modal as it is; a submission that fails validation sends nothing and
\* leaves the modal open on the same record; when the write ends, the modal is
\* closed and editingProjectId reset if it succeeded, and both are left as
\* they are if it failed.
C21_SubmitWritesOnceClosesOnSuccess ==
    [][ /\ ValidSubmission =>
              /\ Cardinality(Sent) = 1
              /\ \A p \in Sent :
                    /\ p.via = "form"
                    /\ p.op = (IF editingProjectId # NoId THEN "update" ELSE "add")
                    /\ p.id = editingProjectId
              /\ modalOpen' = modalOpen
              /\ editingProjectId' = editingProjectId
        /\ FailedValidation =>
              /\ Sent = {}
              /\ modalOpen /\ modalOpen'
              /\ editingProjectId' = editingProjectId
        /\ \A p \in pending : FormWriteEnds(p) =>
              IF ret'.result = "record"
              THEN ~modalOpen' /\ editingProjectId' = NoId
              ELSE modalOpen' = modalOpen /\ editingProjectId' = editingProjectId
      ]_vars

\* An update from the edit form has failed: the modal is open on the same
\* record and the save button can be pressed again.
C21_Witness ==
    /\ ret.op = "update"
    /\ ret.via = "form"
    /\ ret.error
    /\ modalOpen
    /\ editingProjectId = ret.id
    /\ editingProjectId # NoId
    /\ ~saveBtnDisabled

\* C22: window.currentUser is set only after getSession has answered with a
\* session and no error, a guard that redirects leaves it unset, and an insert
\* is in flight only with currentUser set and carries its id: an add made
\* while currentUser is unset fails with no adapter call and leaves the
\* collection as it was.
C22_InsertNeedsCurrentUser ==
    /\ currentUser # NoUser =>
          /\ authGuard.stage = "done"
          /\ authGuard.session
          /\ ~authGuard.error
          /\ ~authGuard.redirected
          /\ currentUser = SessionUser
    /\ (authGuard.stage = "done" /\ (authGuard.error \/ ~authGuard.session)) =>
          authGuard.redirected /\ currentUser = NoUser
    /\ \A p \in pending : p.op = "add" =>
          currentUser # NoUser /\ p.req.user_id = currentUser.id
    /\ (ret.op = "add" /\ ~ret.adapter) =>
          /\ ret.result = "null"
          /\ ret.error
          /\ projects = ret.before

\* An add made after the guard had redirected has failed with no adapter
\* call, next to a collection the load had filled.
C22_Witness ==
    /\ ret.op = "add"
    /\ ~ret.adapter
    /\ currentUser = NoUser
    /\ authGuard.redirected
    /\ Len(projects) > 0
    /\ \A p \in pending : p.op # "add"

====
